---- MODULE Spec2Model ----
(***************************************************************************)
(* A model of xsar's sentinel1_xml_mappings.py: the range/azimuth noise    *)
(* look-up tables (noise_lut_range, noise_lut_azi, _NoiseLut.__call__),    *)
(* the file manifest table (df_files), the composers bursts,               *)
(* azimuth_fmrate and geolocation_grid, the decoders ordered_category and  *)
(* uniq_sorted, the path rewriting or_ipf28, and the two registries        *)
(* xpath_mappings and compounds_vars.                                      *)
(*                                                                         *)
(* Pixel coordinates are integers.  Box corners, which the code offsets by *)
(* half a pixel, are kept in HALF-PIXEL units (twice the coordinate), so   *)
(* that 1.5 is the integer 3 and int() is a division by two.               *)
(* Noise values are exact rationals <<num, den>>; <<0, 0>> is not-a-number.*)
(***************************************************************************)
EXTENDS Integers, Sequences, FiniteSets, TLC

VARIABLES
    \* noise_lut_range, lines 297-303
    rpc,            \* position in noise_lut_range
    lut_atracks,    \* its argument atracks
    atracks_start,  \* line 299
    atracks_stop,   \* lines 300-303
    \* _NoiseLut and its two builders
    pc,             \* position of the evaluation
    ctor,           \* which builder made the LUT, and from how many records
    blocks,         \* _NoiseLut.blocks
    atracks,        \* __call__ argument
    xtracks,        \* __call__ argument
    noise,          \* the array to be returned (line 239)
    match_blocks,   \* line 251-253
    it,             \* index of the next block of match_blocks (line 254)
    sub,            \* what the last iteration selected and got from the block
    result,         \* what __call__ returned
    \* df_files
    fpc,            \* position in df_files
    annotation_files,
    pols,
    num,
    dsid,
    df,             \* the returned table
    \* bursts
    bpc,            \* position in bursts
    lines_per_burst,
    samples_per_burst,
    burst_firstValidSample,
    burst_lastValidSample,
    ibur,           \* the loop index of line 457
    valid_locations,
    bursts_result,  \* what bursts returned, or the exception it raised
    \* azimuth_fmrate
    mpc,            \* position in azimuth_fmrate
    fmrate_t0,      \* argument t0
    fmrate_c0,      \* argument c0
    fmrate_c1,      \* argument c1
    fmrate_c2,      \* argument c2
    fmrate_azimuthFmRatePolynomial,  \* argument polynomial, as passed
    polynomial,     \* the local name polynomial, rebound on line 595
    fmrate_result,  \* the returned table, or the exception raised
    \* geolocation_grid
    gpc,            \* position in geolocation_grid
    geo_atrack,     \* argument atrack
    geo_xtrack,     \* argument xtrack
    geo_values,     \* argument values
    geo_result,     \* the returned array, or the exception raised
    \* or_ipf28, and the query it is written for
    xpc,            \* position: or_ipf28 called, then the query evaluated
    xpath,          \* argument xpath
    xpath_mapping,  \* what or_ipf28 returned: the path kept in xpath_mappings
    doc29,          \* a noise file of the new schema (IPF >= 2.9)
    doc28,          \* a noise file of the old schema (IPF <= 2.8)
    matched29,      \* what the query returns on doc29
    matched28,      \* what the query returns on doc28
    \* ordered_category
    cpc,            \* position in ordered_category
    cat_x,          \* argument x
    cat_result,     \* the returned categorical, or the exception raised
    \* the resolution of a compound variable
    kpc,            \* position in the resolution
    compound,       \* the entry of compounds_vars being resolved: its index
    dependency,     \* the index of the next dependency name to fetch
    fetched,        \* the values fetched so far, in order
    compound_value, \* the resolved compound variable
    \* uniq_sorted
    upc,            \* position in uniq_sorted
    uniq_x,         \* argument x
    uniq_result     \* the returned array

rangeVars == <<rpc, lut_atracks, atracks_start, atracks_stop>>
lutVars   == <<pc, ctor, blocks, atracks, xtracks, noise, match_blocks, it, sub, result>>
fileVars  == <<fpc, annotation_files, pols, num, dsid, df>>
burstVars == <<bpc, lines_per_burst, samples_per_burst, burst_firstValidSample,
               burst_lastValidSample, ibur, valid_locations, bursts_result>>
fmrateVars == <<mpc, fmrate_t0, fmrate_c0, fmrate_c1, fmrate_c2,
                fmrate_azimuthFmRatePolynomial, polynomial, fmrate_result>>
geoVars   == <<gpc, geo_atrack, geo_xtrack, geo_values, geo_result>>
ipfVars   == <<xpc, xpath, xpath_mapping, doc29, doc28, matched29, matched28>>
catVars   == <<cpc, cat_x, cat_result>>
compoundVars == <<kpc, compound, dependency, fetched, compound_value>>
uniqVars  == <<upc, uniq_x, uniq_result>>
vars      == <<rangeVars, lutVars, fileVars, burstVars, fmrateVars, geoVars, ipfVars,
               catVars, compoundVars, uniqVars>>

(***************************************************************************)
(* Bounds of the model and constants of the program.                       *)
(***************************************************************************)
MaxTrack == 6      \* largest along-track sample given to noise_lut_range
MaxLines == 3      \* longest along-track sample array
Sentinel == 65535  \* the "whole image" pixel bound of the code
MaxCoord == 3      \* largest along-track coordinate of a LUT input or a query, the sentinel apart
MaxX == 3          \* largest cross-track coordinate of a query
MaxLutLines == 2   \* most range noise vectors of a LUT
MaxAziRecords == 1 \* most azimuth noise records of a LUT
MaxQuery == 2      \* most along-track coordinates of a query
MaxPols == 2       \* most polarizations of a product
MaxSubds == 3      \* most sub-datasets of a product
MaxBursts == 2     \* most bursts of a sub-swath
MaxBurstLines == 2 \* most lines of a burst
MaxSwathLines == 4 \* most lines of a sub-swath, all bursts together
MaxSample == 2     \* largest valid-sample index of a line
MaxFmRate == 2     \* most azimuth FM-rate records of an annotation file
MaxGridAxis == 2   \* most coordinates of an axis of the geolocation grid
MaxLeaves == 2     \* most text elements of a noise file
MaxCatLen == 3     \* longest list given to ordered_category
MaxUniqLen == 2    \* longest list given to uniq_sorted
MaxPixel == 11     \* largest line or pixel number of a geolocation grid point

(***************************************************************************)
(* Small helpers: numpy on 1D integer arrays.                              *)
(***************************************************************************)
Max(a, b) == IF a >= b THEN a ELSE b
Min(a, b) == IF a <= b THEN a ELSE b

SetMin(S) == CHOOSE m \in S : \A o \in S : m <= o
SetMax(S) == CHOOSE m \in S : \A o \in S : m >= o

RECURSIVE SortedSeq(_)
\* the elements of a finite set of integers, ascending
SortedSeq(S) == IF S = {} THEN <<>>
                ELSE <<SetMin(S)>> \o SortedSeq(S \ {SetMin(S)})

\* strictly increasing arrays over S of length lo..hi
AscArrays(S, lo, hi) ==
    {SortedSeq(T) : T \in {U \in SUBSET S : Cardinality(U) >= lo /\ Cardinality(U) <= hi}}

\* np.diff(a, prepend=p)
DiffPrepend(a, p) == [i \in 1..Len(a) |-> a[i] - (IF i = 1 THEN p ELSE a[i - 1])]
\* np.diff(a, append=q)
DiffAppend(a, q) == [i \in 1..Len(a) |-> (IF i = Len(a) THEN q ELSE a[i + 1]) - a[i]]

\* float -> int of h/2 : truncation toward zero (ndarray.astype(int), int())
TruncHalf(h) == IF h >= 0 THEN h \div 2 ELSE -((-h) \div 2)
\* np.ceil of h/2
CeilHalf(h) == (h + 1) \div 2

(***************************************************************************)
(* noise_lut_range, lines 299-303: the validity interval of each sample.   *)
(***************************************************************************)
\* line 299 with the halving forgotten
AtracksStartNoHalf(a) == [i \in 1..Len(a) |-> a[i] - DiffPrepend(a, 0)[i]]
\* (atracks - np.diff(atracks, prepend=0) / 2).astype(int)
AtracksStart(a) == [i \in 1..Len(a) |-> TruncHalf(2 * a[i] - DiffPrepend(a, 0)[i])]

\* np.ceil(atracks + np.diff(atracks, append=atracks[-1] + 1) / 2).astype(int)
AtracksStopCeil(a) ==
    [i \in 1..Len(a) |-> CeilHalf(2 * a[i] + DiffAppend(a, a[Len(a)] + 1)[i])]

\* atracks_stop[-1] = 65535
AtracksStopLast(stop) == [stop EXCEPT ![Len(stop)] = Sentinel]

RangeInputs == AscArrays(0..MaxTrack, 1, MaxLines)

RangeInit ==
    /\ rpc = "args"
    /\ lut_atracks \in RangeInputs
    /\ atracks_start = <<>>
    /\ atracks_stop = <<>>

RangeStart ==
    /\ rpc = "args"
    /\ atracks_start' = AtracksStart(lut_atracks)
    /\ rpc' = "start"
    /\ UNCHANGED <<lut_atracks, atracks_stop>>

RangeStop ==
    /\ rpc = "start"
    /\ atracks_stop' = AtracksStopCeil(lut_atracks)
    /\ rpc' = "stop"
    /\ UNCHANGED <<lut_atracks, atracks_start>>

RangeStopLast ==
    /\ rpc = "stop"
    /\ atracks_stop' = AtracksStopLast(atracks_stop)
    /\ rpc' = "intervals"
    /\ UNCHANGED <<lut_atracks, atracks_start>>

(***************************************************************************)
(* Noise values: exact rationals, and not-a-number.                        *)
(***************************************************************************)
RECURSIVE GCD(_, _)
GCD(a, b) == IF b = 0 THEN a ELSE GCD(b, a % b)
Abs(n) == IF n >= 0 THEN n ELSE -n

NaN == <<0, 0>>
\* n/d, d > 0, in lowest terms
Frac(n, d) == LET g == GCD(Abs(n), d) IN <<n \div g, d \div g>>
One == Frac(1, 1)

\* scipy interp1d(kind='linear'): the segment used for x_new is the one ending
\* at index searchsorted(x, x_new) clipped to 1..len-1 (0-based)
SegmentHi(pts, x_new) ==
    LET below == Cardinality({k \in 1..Len(pts) : pts[k] < x_new})
    IN  Min(Max(below, 1), Len(pts) - 1) + 1

\* slope * (x_new - x_lo) + y_lo on that segment
LinearAt(pts, vals, x_new) ==
    LET hi == SegmentHi(pts, x_new)
        lo == hi - 1
        dx == pts[hi] - pts[lo]
    IN  Frac(vals[lo] * dx + (vals[hi] - vals[lo]) * (x_new - pts[lo]), dx)

\* fill_value=np.nan, bounds_error=False
Interp1dNan(pts, vals, x_new) ==
    IF x_new < pts[1] \/ x_new > pts[Len(pts)] THEN NaN ELSE LinearAt(pts, vals, x_new)

\* fill_value='extrapolate'
Interp1dExtrapolate(pts, vals, x_new) == LinearAt(pts, vals, x_new)

(***************************************************************************)
(* Blocks.  geometry is <<a_min, x_min, a_max, x_max>> in half pixels      *)
(* (shapely box(minx, miny, maxx, maxy) with atrack as the first axis).    *)
(***************************************************************************)
Box(a_min, x_min, a_max, x_max) == <<a_min, x_min, a_max, x_max>>

\* Lut_box_range.__init__
LutBoxRange(a_start, a_stop, x, l) ==
    [kind |-> "range", pts |-> x, vals |-> l,
     geometry |-> Box(2 * a_start, 2 * x[1], 2 * a_stop, 2 * x[Len(x)])]

\* Lut_box_range.__call__: np.tile(self.lut_f(xtracks), (atracks.size, 1))
LutBoxRangeCall(b, sa, sx) ==
    [shape |-> <<Len(sa), Len(sx)>>,
     v |-> [i \in 1..Len(sa) |-> [j \in 1..Len(sx) |-> Interp1dNan(b.pts, b.vals, sx[j])]]]

\* Lut_box_azi.__init__
LutBoxAzi(a, a_start, a_stop, x_start, x_stop, lut) ==
    [kind |-> "azi", pts |-> a, vals |-> lut,
     geometry |-> Box(Max(0, 2 * a_start - 1), Max(0, 2 * x_start - 1),
                      2 * a_stop + 1, 2 * x_stop + 1)]

\* Lut_box_azi.__call__: np.tile(self.lut_f(atracks), (xtracks.size, 1)).T
\* with lut_f the interpolant, or lambda _a: lut when len(lut) <= 1
LutBoxAziCall(b, sa, sx) ==
    IF Len(b.vals) > 1
    THEN [shape |-> <<Len(sa), Len(sx)>>,
          v |-> [i \in 1..Len(sa) |->
                    [j \in 1..Len(sx) |-> Interp1dExtrapolate(b.pts, b.vals, sa[i])]]]
    ELSE [shape |-> <<Len(b.vals), Len(sx)>>,
          v |-> [i \in 1..Len(b.vals) |-> [j \in 1..Len(sx) |-> Frac(b.vals[i], 1)]]]

\* the block installed when there is no azimuth noise record
SyntheticBlock ==
    [kind |-> "const", pts |-> <<>>, vals |-> <<>>,
     geometry |-> Box(0, 0, 2 * Sentinel, 2 * Sentinel)]

\* lambda a, x: 1
SyntheticCall(b, sa, sx) == [shape |-> <<>>, v |-> One]

\* block.lut_f(sub_a, sub_x)
BlockCall(b, sa, sx) ==
    CASE b.kind = "range" -> LutBoxRangeCall(b, sa, sx)
      [] b.kind = "azi"   -> LutBoxAziCall(b, sa, sx)
      [] OTHER            -> SyntheticCall(b, sa, sx)

\* noise_lut_range, lines 297-315
NoiseLutRangeBlocks(atr, xtr, luts) ==
    LET start == AtracksStart(atr)
        stop  == AtracksStopLast(AtracksStopCeil(atr))
        n     == Min(Len(atr), Min(Len(xtr), Len(luts)))
    IN  [i \in 1..n |-> LutBoxRange(start[i], stop[i], xtr[i], luts[i])]

\* noise_lut_azi, lines 357-379; a record is one element of the zip
NoiseLutAziBlocks(recs) ==
    IF Len(recs) = 0 THEN <<SyntheticBlock>>
    ELSE [i \in 1..Len(recs) |->
            LutBoxAzi(recs[i].a, recs[i].a_start, recs[i].a_stop,
                      recs[i].x_start, recs[i].x_stop, recs[i].lut)]

(***************************************************************************)
(* _NoiseLut.__call__                                                      *)
(***************************************************************************)
\* len(self.blocks) == 0, with the test lost
NoBlocksNever(bl) == FALSE
\* len(self.blocks) == 0
NoBlocks(bl) == Len(bl) = 0

\* box(max(0, atracks[0] - 0.5), max(0, xtracks[0] - 0.5), atracks[-1] + 0.5, xtracks[-1] + 0.5)
AskedBox(at, xt) ==
    Box(Max(0, 2 * at[1] - 1), Max(0, 2 * xt[1] - 1),
        2 * at[Len(at)] + 1, 2 * xt[Len(xt)] + 1)

\* intersection of two boxes (a segment or a point when they only touch)
Intersection(g, h) ==
    Box(Max(g[1], h[1]), Max(g[2], h[2]), Min(g[3], h[3]), Min(g[4], h[4]))
IsEmpty(g) == g[1] > g[3] \/ g[2] > g[4]

RECURSIVE KeepNonEmpty(_)
KeepNonEmpty(bl) ==
    IF bl = <<>> THEN <<>>
    ELSE (IF IsEmpty(Head(bl).geometry) THEN <<>> ELSE <<Head(bl)>>) \o KeepNonEmpty(Tail(bl))

\* lines 251-253
MatchBlocks(bl, asked_box) ==
    KeepNonEmpty([i \in 1..Len(bl) |->
                    [bl[i] EXCEPT !.geometry = Intersection(bl[i].geometry, asked_box)]])

\* map(int, block.geometry.bounds)
IntBounds(g) == [k \in 1..4 |-> TruncHalf(g[k])]

RECURSIVE Between(_, _, _)
\* coords[(coords >= lo) & (coords <= hi)]
Between(coords, lo, hi) ==
    IF coords = <<>> THEN <<>>
    ELSE (IF Head(coords) >= lo /\ Head(coords) <= hi THEN <<Head(coords)>> ELSE <<>>)
         \o Between(Tail(coords), lo, hi)

RECURSIVE BetweenOpen(_, _, _)
\* the same with the upper bound excluded
BetweenOpen(coords, lo, hi) ==
    IF coords = <<>> THEN <<>>
    ELSE (IF Head(coords) >= lo /\ Head(coords) < hi THEN <<Head(coords)>> ELSE <<>>)
         \o BetweenOpen(Tail(coords), lo, hi)

\* lines 256-257
SubCoords(coords, lo, hi) == Between(coords, lo, hi)

InSeq(c, s) == \E k \in 1..Len(s) : s[k] = c
IndexOf(c, s) == CHOOSE k \in 1..Len(s) : s[k] = c

\* whether a value of that shape broadcasts to (rows, cols)
Broadcasts(shape, rows, cols) ==
    \/ shape = <<>>
    \/ /\ (shape[1] = rows \/ shape[1] = 1)
       /\ (shape[2] = cols \/ shape[2] = 1)

\* the element of val that lands on position (p, q) of the selection
Landing(val, p, q) ==
    IF val.shape = <<>> THEN val.v
    ELSE val.v[IF val.shape[1] = 1 THEN 1 ELSE p][IF val.shape[2] = 1 THEN 1 ELSE q]

\* an assignment that keeps what an earlier block wrote
LocAssignKeepFirst(arr, at, xt, sa, sx, val) ==
    [i \in 1..Len(at) |-> [j \in 1..Len(xt) |->
        IF InSeq(at[i], sa) /\ InSeq(xt[j], sx) /\ arr[i][j] = NaN
        THEN Landing(val, IndexOf(at[i], sa), IndexOf(xt[j], sx))
        ELSE arr[i][j]]]

\* noise.loc[dict(atrack=sub_a, xtrack=sub_x)] = val
LocAssign(arr, at, xt, sa, sx, val) ==
    [i \in 1..Len(at) |-> [j \in 1..Len(xt) |->
        IF InSeq(at[i], sa) /\ InSeq(xt[j], sx)
        THEN Landing(val, IndexOf(at[i], sa), IndexOf(xt[j], sx))
        ELSE arr[i][j]]]

\* np.ones((atracks.size, xtracks.size)) * np.nan
NanArray(rows, cols) == [i \in 1..rows |-> [j \in 1..cols |-> NaN]]

NoSub == [blk |-> 0, sub_a |-> <<>>, sub_x |-> <<>>, lut |-> [shape |-> <<>>, v |-> NaN]]
NoResult == [kind |-> "none", v |-> 0]

(***************************************************************************)
(* Inputs of the builders and of the evaluation.                           *)
(***************************************************************************)
\* a range noise vector: its pixels and its values
RangeProfiles == {[x |-> <<0, MaxX - 1>>, l |-> l] : l \in {<<1, 4>>, <<6, 6>>}}
LutRangeAtracks == AscArrays(0..MaxCoord, 1, MaxLutLines)

\* an azimuth noise record: two lines of one swath, sampled on its first line
\* or on both
AziRecords ==
    {[a |-> SubSeq(<<s, s + 1>>, 1, Len(lut)), a_start |-> s, a_stop |-> s + 1,
      x_start |-> 1, x_stop |-> MaxX - 1, lut |-> lut] :
        s \in 0..(MaxCoord - 1), lut \in {<<5>>, <<2, 7>>}}

\* ascending query coordinates; an empty array is a query too
QueryAtracks == AscArrays((0..MaxCoord) \cup {Sentinel}, 0, MaxQuery)
QueryXtracks == {<<>>} \cup {[k \in 1..(hi - lo + 1) |-> lo + k - 1] : lo \in 0..MaxX, hi \in 0..MaxX}

LutInit ==
    /\ pc = "init"
    /\ ctor = [by |-> "none", n |-> 0]
    /\ blocks = <<>>
    /\ atracks = <<>>
    /\ xtracks = <<>>
    /\ noise = <<>>
    /\ match_blocks = <<>>
    /\ it = 0
    /\ sub = NoSub
    /\ result = NoResult

\* noise_lut_range(atracks, xtracks, noiseLuts)
NoiseLutRange ==
    /\ pc = "init"
    /\ \E atr \in LutRangeAtracks :
         \E prof \in [1..Len(atr) -> RangeProfiles] :
            /\ blocks' = NoiseLutRangeBlocks(atr, [i \in 1..Len(atr) |-> prof[i].x],
                                             [i \in 1..Len(atr) |-> prof[i].l])
            /\ ctor' = [by |-> "range", n |-> Len(atr)]
    /\ pc' = "built"
    /\ UNCHANGED <<atracks, xtracks, noise, match_blocks, it, sub, result>>

\* noise_lut_azi(atrack_azi, ..., noise_azi_lut, swath)
NoiseLutAzi ==
    /\ pc = "init"
    /\ \E n \in 0..MaxAziRecords :
         \E recs \in [1..n -> AziRecords] :
            /\ blocks' = NoiseLutAziBlocks(recs)
            /\ ctor' = [by |-> "azi", n |-> n]
    /\ pc' = "built"
    /\ UNCHANGED <<atracks, xtracks, noise, match_blocks, it, sub, result>>

\* _NoiseLut(blocks) with no block at all
NoiseLutNew ==
    /\ pc = "init"
    /\ blocks' = <<>>
    /\ ctor' = [by |-> "new", n |-> 0]
    /\ pc' = "built"
    /\ UNCHANGED <<atracks, xtracks, noise, match_blocks, it, sub, result>>

\* _NoiseLut.__call__(atracks, xtracks), up to the loop
Call ==
    /\ pc = "built"
    /\ \E at \in QueryAtracks, xt \in QueryXtracks :
        /\ atracks' = at
        /\ xtracks' = xt
        /\ IF NoBlocks(blocks)
           THEN /\ result' = [kind |-> "scalar", v |-> 1]
                /\ pc' = "done"
                /\ UNCHANGED <<noise, match_blocks, it>>
           ELSE IF at = <<>> \/ xt = <<>>
           THEN \* atracks[0]: IndexError
                /\ result' = [kind |-> "IndexError", v |-> 0]
                /\ pc' = "done"
                /\ noise' = NanArray(Len(at), Len(xt))
                /\ UNCHANGED <<match_blocks, it>>
           ELSE /\ noise' = NanArray(Len(at), Len(xt))
                /\ match_blocks' = MatchBlocks(blocks, AskedBox(at, xt))
                /\ it' = 1
                /\ pc' = "loop"
                /\ UNCHANGED result
    /\ UNCHANGED <<ctor, blocks, sub>>

\* one iteration of the loop of lines 254-258
LoopBlock ==
    /\ pc = "loop"
    /\ it <= Len(match_blocks)
    /\ LET block == match_blocks[it]
           b     == IntBounds(block.geometry)
           sub_a == SubCoords(atracks, b[1], b[3])
           sub_x == SubCoords(xtracks, b[2], b[4])
           lut   == BlockCall(block, sub_a, sub_x)
       IN  /\ sub' = [blk |-> it, sub_a |-> sub_a, sub_x |-> sub_x, lut |-> lut]
           /\ IF Broadcasts(lut.shape, Len(sub_a), Len(sub_x))
              THEN /\ noise' = LocAssign(noise, atracks, xtracks, sub_a, sub_x, lut)
                   /\ it' = it + 1
                   /\ UNCHANGED <<pc, result>>
              ELSE \* could not broadcast input array: ValueError
                   /\ result' = [kind |-> "ValueError", v |-> 0]
                   /\ pc' = "done"
                   /\ UNCHANGED <<noise, it>>
    /\ UNCHANGED <<ctor, blocks, atracks, xtracks, match_blocks>>

\* return noise.values
Return ==
    /\ pc = "loop"
    /\ it > Len(match_blocks)
    /\ result' = [kind |-> "array", v |-> noise]
    /\ pc' = "done"
    /\ UNCHANGED <<ctor, blocks, atracks, xtracks, noise, match_blocks, it, sub>>

\* the value block.lut_f gives at one coordinate pair
BlockValueAt(b, a, x) ==
    CASE b.kind = "range" -> Interp1dNan(b.pts, b.vals, x)
      [] b.kind = "azi"   -> IF Len(b.vals) > 1 THEN Interp1dExtrapolate(b.pts, b.vals, a)
                             ELSE Frac(b.vals[1], 1)
      [] OTHER            -> One

\* whether lines 255-257 select coordinate (a, x) for a block of match_blocks
Selects(block, a, x) ==
    LET b == IntBounds(block.geometry)
    IN  a >= b[1] /\ a <= b[3] /\ x >= b[2] /\ x <= b[4]

\* whether the point (a, x) is inside a box
Contains(g, a, x) == g[1] <= 2 * a /\ 2 * a <= g[3] /\ g[2] <= 2 * x /\ 2 * x <= g[4]

(***************************************************************************)
(* df_files.  A file name is its basename split at '-': nine fields, of    *)
(* which the code reads the 2nd (dataset id), the 4th (polarization) and   *)
(* the 9th (sequence number, the extension taken off).  Those three are    *)
(* sequences of characters.  The measurement, noise and calibration lists  *)
(* are only copied into the table and are left out.                        *)
(***************************************************************************)
\* str.upper() on one character
UpperChar(c) ==
    CASE c = "w" -> "W" [] c = "v" -> "V" [] c = "i" -> "I" [] c = "h" -> "H"
      [] c = "e" -> "E" [] c = "s" -> "S" [] OTHER -> c
Upper(str) == [k \in 1..Len(str) |-> UpperChar(str[k])]

DigitChars == <<"0", "1", "2", "3", "4", "5", "6", "7", "8", "9">>
DigitVal(c) == (CHOOSE k \in 1..10 : DigitChars[k] = c) - 1

RECURSIVE IntOf(_)
\* int(str) of a string of decimal digits
IntOf(str) == IF str = <<>> THEN 0
              ELSE 10 * IntOf(SubSeq(str, 1, Len(str) - 1)) + DigitVal(str[Len(str)])

RECURSIVE DecDigits(_)
\* "%d" % n
DecDigits(n) == IF n < 10 THEN <<DigitChars[n + 1]>>
                ELSE DecDigits(n \div 10) \o <<DigitChars[(n % 10) + 1]>>

RECURSIVE ZeroPad(_, _)
ZeroPad(str, width) == IF Len(str) >= width THEN str ELSE ZeroPad(<<"0">> \o str, width)

\* "%03d" % n
Format03d(n) == ZeroPad(DecDigits(n), 3)

\* the list as a set: set(x)
SetOf(x) == {x[k] : k \in 1..Len(x)}

\* os.path.basename(f).split('-')[3].upper()
PolOf(f) == Upper(f[4])
\* int(os.path.splitext(os.path.basename(f))[0].split('-')[8])
NumOf(f) == IntOf(f[9])
\* os.path.basename(f).split('-')[1].upper()
DsidOf(f) == Upper(f[2])

\* dsid[0] kept whole
RadicalWhole(d) == d
\* dsid[0][:-1]
Radical(d) == SubSeq(d, 1, Len(d) - 1)

\* ["%s_%03d" % (dsid_rad, n) for n in num]
Resynthesized(d, n) ==
    [k \in 1..Len(n) |-> Radical(d[1]) \o <<"_">> \o Format03d(n[k])]

\* the assertion compiled away
AssertionSkipped(d, subds_count) == TRUE
\* assert len(set(dsid)) == subds_count
AssertionHolds(d, subds_count) == Cardinality(SetOf(d)) = subds_count

\* the annotation file of polarization pol, dataset id ds, sequence number n
FileName(ds, pol, n) == <<"s1a", ds, "slc", pol, "start", "stop", "orbit", "take", Format03d(n)>>

PolNames == <<<<"v", "v">>, <<"v", "h">>, <<"h", "h">>, <<"h", "v">>>>
DsNames == {<<"w", "v", "1">>, <<"w", "v", "2">>, <<"i", "w", "1">>}

\* the files of a product of np polarizations whose sub-datasets have the ids
\* ids, numbered 1..n within each polarization or through the whole product
ProductFiles(np, ids, running) ==
    [k \in 1..(np * Len(ids)) |->
        LET p == ((k - 1) \div Len(ids)) + 1
            d == ((k - 1) % Len(ids)) + 1
        IN  FileName(ids[d], PolNames[p], IF running THEN k ELSE d)]

\* products, whole or with the last file missing
FileInputs ==
    {SubSeq(ProductFiles(np, ids, running), 1, np * Len(ids) - miss) :
        np \in 1..MaxPols,
        ids \in UNION {[1..n -> DsNames] : n \in 1..MaxSubds},
        running \in BOOLEAN,
        miss \in 0..1}

FileInit ==
    /\ fpc = "args"
    /\ annotation_files \in FileInputs
    /\ pols = <<>>
    /\ num = <<>>
    /\ dsid = <<>>
    /\ df = <<>>

\* lines 395-397
DfFilesParse ==
    /\ fpc = "args"
    /\ pols' = [k \in 1..Len(annotation_files) |-> PolOf(annotation_files[k])]
    /\ num' = [k \in 1..Len(annotation_files) |-> NumOf(annotation_files[k])]
    /\ dsid' = [k \in 1..Len(annotation_files) |-> DsidOf(annotation_files[k])]
    /\ fpc' = "parsed"
    /\ UNCHANGED <<annotation_files, df>>

\* lines 402-408
DfFilesUnique ==
    /\ fpc = "parsed"
    /\ LET pols_count == Cardinality(SetOf(pols))
       IN  IF pols_count = 0
           THEN \* len(annotation_files) // 0
                /\ fpc' = "ZeroDivisionError"
                /\ UNCHANGED dsid
           ELSE LET subds_count == Len(annotation_files) \div pols_count
                    dsid_count  == Cardinality(SetOf(dsid))
                IN  IF dsid_count # subds_count
                    THEN /\ dsid' = Resynthesized(dsid, num)
                         /\ fpc' = IF AssertionHolds(dsid', subds_count)
                                   THEN "unique" ELSE "AssertionError"
                    ELSE /\ fpc' = "unique"
                         /\ UNCHANGED dsid
    /\ UNCHANGED <<annotation_files, pols, num, df>>

\* lines 410-421: one row per file, indexed by its number
DfFilesReturn ==
    /\ fpc = "unique"
    /\ df' = [k \in 1..Len(annotation_files) |->
                [index |-> num[k], polarization |-> pols[k], dsid |-> dsid[k],
                 annotation |-> annotation_files[k]]]
    /\ fpc' = "returned"
    /\ UNCHANGED <<annotation_files, pols, num, dsid>>

(***************************************************************************)
(* bursts.  firstValidSample / lastValidSample hold one entry per line of  *)
(* each burst, -1 where the line has no valid sample.  After line 451 they *)
(* are floats: <<k, 1>> for the index k, NaN for a missing one.            *)
(***************************************************************************)
\* ndarray.astype(float) on one integer
FloatOf(k) == <<k, 1>>

\* lines 451-454: astype(float), then -1 replaced by NaN
MissingAsNan(arr) ==
    [i \in 1..Len(arr) |->
        [k \in 1..Len(arr[i]) |-> IF arr[i][k] = -1 THEN NaN ELSE FloatOf(arr[i][k])]]

\* np.isfinite
IsFinite(v) == v # NaN

\* the selection of the line commented out at 460, on the NaN-filled arrays:
\* NaN != -1 holds, so every line is selected
ValindNotMinusOne(fvs, lvs) == {k - 1 : k \in 1..Len(fvs)}
\* line 461: np.where(np.isfinite(fvs) | np.isfinite(lvs))[0], 0-based
Valind(fvs, lvs) == {k - 1 : k \in {j \in 1..Len(fvs) : IsFinite(fvs[j]) \/ IsFinite(lvs[j])}}

\* arr[valind], as the set of its values
Taken(arr, valind) == {arr[k + 1] : k \in valind}

\* ndarray.min() of a non-empty float array: NaN if any element is NaN
ArrayMin(S) == IF NaN \in S THEN NaN ELSE FloatOf(SetMin({v[1] : v \in S}))
\* ndarray.max() of a non-empty float array: NaN if any element is NaN
ArrayMax(S) == IF NaN \in S THEN NaN ELSE FloatOf(SetMax({v[1] : v \in S}))

\* lines 462-463, for a non-empty valind
Valloc(i, lpb, fvs, lvs) ==
    LET valind == Valind(fvs, lvs)
    IN  <<FloatOf(i * lpb + SetMin(valind)), ArrayMin(Taken(fvs, valind)),
          FloatOf(i * lpb + SetMax(valind)), ArrayMax(Taken(lvs, valind))>>

\* what a float64 NaN becomes when it is stored into an int32 array by a C
\* cast: the conversion is undefined; x86 builds give the smallest int32,
\* others 0
NanAsInt32 == {-2147483647 - 1, 0}
\* line 464: the values a float may take once stored into the int32 array
AsInt32(v) == IF v = NaN THEN NanAsInt32 ELSE {v[1]}
\* line 464: the rows valid_locations[ibur, :] may hold after the assignment
StoredRows(valloc) ==
    {<<a, b, c, d>> : a \in AsInt32(valloc[1]), b \in AsInt32(valloc[2]),
                      c \in AsInt32(valloc[3]), d \in AsInt32(valloc[4])}

NoBursts == [status |-> "none", valid_location |-> <<>>]

\* one burst's row of firstValidSample / lastValidSample, n lines
SampleRows(S, n) == [1..n -> S]
\* nb bursts of n lines each
SampleArrays(S, nb, n) == [1..nb -> SampleRows(S, n)]

\* the inputs: the annotation gives one firstValidSample and one
\* lastValidSample entry per line of a burst, so rows have lines_per_burst
\* entries; a product without bursts has both counts at 0
BurstInit ==
    /\ bpc = "start"
    /\ lines_per_burst \in 0..MaxBurstLines
    /\ samples_per_burst \in {0, MaxSample + 1}
    /\ \E nb \in 0..MaxBursts :
        /\ nb * lines_per_burst <= MaxSwathLines
        /\ burst_firstValidSample \in
              SampleArrays({-1} \cup 0..(MaxSample - 1), nb, lines_per_burst)
        /\ burst_lastValidSample \in
              SampleArrays({-1} \cup 1..MaxSample, nb, lines_per_burst)
    /\ ibur = 0
    /\ valid_locations = <<>>
    /\ bursts_result = NoBursts

\* lines 447-448: a product without bursts
BurstsNone ==
    /\ bpc = "start"
    /\ lines_per_burst = 0 /\ samples_per_burst = 0
    /\ bursts_result' = [status |-> "None", valid_location |-> <<>>]
    /\ bpc' = "returned"
    /\ UNCHANGED <<lines_per_burst, samples_per_burst, burst_firstValidSample,
                   burst_lastValidSample, ibur, valid_locations>>

\* lines 451-456
BurstsConvert ==
    /\ bpc = "start"
    /\ ~(lines_per_burst = 0 /\ samples_per_burst = 0)
    /\ burst_firstValidSample' = MissingAsNan(burst_firstValidSample)
    /\ burst_lastValidSample' = MissingAsNan(burst_lastValidSample)
    /\ ibur' = 0
    /\ valid_locations' = <<>>
    /\ bpc' = "loop"
    /\ UNCHANGED <<lines_per_burst, samples_per_burst, bursts_result>>

\* lines 457-464, one iteration that completes
BurstsLoop ==
    /\ bpc = "loop"
    /\ ibur < Len(burst_firstValidSample)
    /\ LET fvs == burst_firstValidSample[ibur + 1]
           lvs == burst_lastValidSample[ibur + 1]
       IN  /\ Valind(fvs, lvs) # {}
           /\ \E row \in StoredRows(Valloc(ibur, lines_per_burst, fvs, lvs)) :
                 valid_locations' = Append(valid_locations, row)
    /\ ibur' = ibur + 1
    /\ UNCHANGED <<bpc, lines_per_burst, samples_per_burst, burst_firstValidSample,
                   burst_lastValidSample, bursts_result>>

\* line 464 when valloc holds a NaN: numpy builds whose assignment converts
\* element by element refuse it, ValueError
BurstsStoreRaise ==
    /\ bpc = "loop"
    /\ ibur < Len(burst_firstValidSample)
    /\ LET fvs == burst_firstValidSample[ibur + 1]
           lvs == burst_lastValidSample[ibur + 1]
       IN  /\ Valind(fvs, lvs) # {}
           /\ \E k \in 1..4 : Valloc(ibur, lines_per_burst, fvs, lvs)[k] = NaN
    /\ bursts_result' = [status |-> "ValueError", valid_location |-> <<>>]
    /\ bpc' = "raised"
    /\ UNCHANGED <<lines_per_burst, samples_per_burst, burst_firstValidSample,
                   burst_lastValidSample, ibur, valid_locations>>

\* line 462, valind.min() of an empty selection: ValueError
BurstsRaise ==
    /\ bpc = "loop"
    /\ ibur < Len(burst_firstValidSample)
    /\ Valind(burst_firstValidSample[ibur + 1], burst_lastValidSample[ibur + 1]) = {}
    /\ bursts_result' = [status |-> "ValueError", valid_location |-> <<>>]
    /\ bpc' = "raised"
    /\ UNCHANGED <<lines_per_burst, samples_per_burst, burst_firstValidSample,
                   burst_lastValidSample, ibur, valid_locations>>

\* lines 465-479
BurstsReturn ==
    /\ bpc = "loop"
    /\ ibur = Len(burst_firstValidSample)
    /\ bursts_result' = [status |-> "Dataset", valid_location |-> valid_locations]
    /\ bpc' = "returned"
    /\ UNCHANGED <<lines_per_burst, samples_per_burst, burst_firstValidSample,
                   burst_lastValidSample, ibur, valid_locations>>

(***************************************************************************)
(* azimuth_fmrate.  One record per azimuthFmRate element: t0, and either   *)
(* the legacy fields c0, c1, c2 or the combined azimuthFmRatePolynomial.   *)
(* Coefficients are numbers.  The azimuth_time column, which is also the   *)
(* index and has one entry per record like t0, is left out.                *)
(***************************************************************************)
\* c.size of a 1D array, polynomial.size of a 2D array of rows
SizeOf(arr) == Len(arr)

\* the condition of line 593 without its second conjunct
OldAnnotationWhateverCombined(c0, c1, c2, poly) ==
    SizeOf(c0) + SizeOf(c1) + SizeOf(c2) # 0
\* line 593
OldAnnotation(c0, c1, c2, poly) ==
    /\ SizeOf(c0) + SizeOf(c1) + SizeOf(c2) # 0
    /\ SizeOf(poly) = 0

\* np.stack([a, b, c], axis=1) of three 1D arrays of one length
Stack(a, b, c) == [k \in 1..Len(a) |-> <<a[k], b[k], c[k]>>]

NoFmrate == [status |-> "none", t0 |-> <<>>, polynomial |-> <<>>]

CoefValues == {1, 2}
\* a field of n records: absent from every record, or present in every one
FieldArrays(n) == {<<>>} \cup [1..n -> CoefValues]
\* the combined field: absent, or three coefficients in every record
CombinedArrays(n) == {<<>>} \cup [1..n -> [1..3 -> CoefValues]]

FmrateInit ==
    /\ mpc = "start"
    /\ \E n \in 0..MaxFmRate :
        /\ fmrate_t0 = [k \in 1..n |-> k]
        /\ fmrate_c0 \in FieldArrays(n)
        /\ fmrate_c1 \in FieldArrays(n)
        /\ fmrate_c2 \in FieldArrays(n)
        /\ fmrate_azimuthFmRatePolynomial \in CombinedArrays(n)
    /\ polynomial = fmrate_azimuthFmRatePolynomial
    /\ fmrate_result = NoFmrate

\* lines 593-595: old annotation, the polynomial is made of the legacy fields
FmrateOldAnnotation ==
    /\ mpc = "start"
    /\ OldAnnotation(fmrate_c0, fmrate_c1, fmrate_c2, polynomial)
    /\ Len(fmrate_c0) = Len(fmrate_c1)
    /\ polynomial' = Stack(fmrate_c0, fmrate_c1, fmrate_c1)
    /\ mpc' = "frame"
    /\ UNCHANGED <<fmrate_t0, fmrate_c0, fmrate_c1, fmrate_c2,
                   fmrate_azimuthFmRatePolynomial, fmrate_result>>

\* line 595: np.stack of arrays of different shapes raises ValueError
FmrateStackRaise ==
    /\ mpc = "start"
    /\ OldAnnotation(fmrate_c0, fmrate_c1, fmrate_c2, polynomial)
    /\ Len(fmrate_c0) # Len(fmrate_c1)
    /\ fmrate_result' = [status |-> "ValueError", t0 |-> <<>>, polynomial |-> <<>>]
    /\ mpc' = "raised"
    /\ UNCHANGED <<fmrate_t0, fmrate_c0, fmrate_c1, fmrate_c2,
                   fmrate_azimuthFmRatePolynomial, polynomial>>

\* line 593, condition false: the polynomial is kept
FmrateCombined ==
    /\ mpc = "start"
    /\ ~OldAnnotation(fmrate_c0, fmrate_c1, fmrate_c2, polynomial)
    /\ mpc' = "frame"
    /\ UNCHANGED <<fmrate_t0, fmrate_c0, fmrate_c1, fmrate_c2,
                   fmrate_azimuthFmRatePolynomial, polynomial, fmrate_result>>

\* lines 598-604: one Polynomial(p) per row, one row per record
FmrateReturn ==
    /\ mpc = "frame"
    /\ Len(polynomial) = Len(fmrate_t0)
    /\ fmrate_result' = [status |-> "DataFrame", t0 |-> fmrate_t0,
                         polynomial |-> polynomial]
    /\ mpc' = "returned"
    /\ UNCHANGED <<fmrate_t0, fmrate_c0, fmrate_c1, fmrate_c2,
                   fmrate_azimuthFmRatePolynomial, polynomial>>

\* lines 598-604: columns of different lengths, pandas raises ValueError
FmrateFrameRaise ==
    /\ mpc = "frame"
    /\ Len(polynomial) # Len(fmrate_t0)
    /\ fmrate_result' = [status |-> "ValueError", t0 |-> <<>>, polynomial |-> <<>>]
    /\ mpc' = "raised"
    /\ UNCHANGED <<fmrate_t0, fmrate_c0, fmrate_c1, fmrate_c2,
                   fmrate_azimuthFmRatePolynomial, polynomial>>

(***************************************************************************)
(* geolocation_grid.  values is the flat list of one quantity over the     *)
(* geolocation grid points; a 2D array is a sequence of rows.              *)
(***************************************************************************)
\* a reshape in column-major (Fortran) order
ReshapeColumnMajor(values, shape) ==
    [i \in 1..shape[1] |-> [j \in 1..shape[2] |-> values[(j - 1) * shape[1] + i]]]
\* line 439: np.reshape(values, shape), row-major, for a matching size
Reshape(values, shape) ==
    [i \in 1..shape[1] |-> [j \in 1..shape[2] |-> values[(i - 1) * shape[2] + j]]]

NoGrid == [status |-> "none", data |-> <<>>, atrack |-> <<>>, xtrack |-> <<>>]

GridValues == {1, 2}

GeoInit ==
    /\ gpc = "start"
    /\ geo_atrack \in AscArrays(0..MaxGridAxis, 0, MaxGridAxis)
    /\ geo_xtrack \in AscArrays(0..MaxGridAxis, 0, MaxGridAxis)
    /\ \E n \in 0..(MaxGridAxis * MaxGridAxis) : geo_values \in [1..n -> GridValues]
    /\ geo_result = NoGrid

\* lines 438-440
GeolocationGrid ==
    /\ gpc = "start"
    /\ LET shape == <<Len(geo_atrack), Len(geo_xtrack)>>
       IN  /\ Len(geo_values) = shape[1] * shape[2]
           /\ geo_result' = [status |-> "DataArray",
                             data |-> Reshape(geo_values, shape),
                             atrack |-> geo_atrack, xtrack |-> geo_xtrack]
    /\ gpc' = "returned"
    /\ UNCHANGED <<geo_atrack, geo_xtrack, geo_values>>

\* line 439: np.reshape of an array of another size raises ValueError
GeolocationGridRaise ==
    /\ gpc = "start"
    /\ Len(geo_values) # Len(geo_atrack) * Len(geo_xtrack)
    /\ geo_result' = [status |-> "ValueError", data |-> <<>>,
                      atrack |-> <<>>, xtrack |-> <<>>]
    /\ gpc' = "raised"
    /\ UNCHANGED <<geo_atrack, geo_xtrack, geo_values>>

(***************************************************************************)
(* or_ipf28.  A path is a string, kept as the sequence of its words: "/",  *)
(* the separator " | " and the words of the camel-case tag names, so that  *)
(* noiseRangeVector is <<"noise", "Range", "Vector">>.                     *)
(***************************************************************************)
\* s begins with the words of old
StartsWith(s, old) == Len(s) >= Len(old) /\ SubSeq(s, 1, Len(old)) = old

RECURSIVE ReplaceFirst(_, _, _)
\* str.replace(old, new, 1)
ReplaceFirst(s, old, new) ==
    IF s = <<>> THEN <<>>
    ELSE IF StartsWith(s, old) THEN new \o SubSeq(s, Len(old) + 1, Len(s))
    ELSE <<Head(s)>> \o ReplaceFirst(Tail(s), old, new)

RECURSIVE Replace(_, _, _)
\* str.replace(old, new): every occurrence, left to right
Replace(s, old, new) ==
    IF s = <<>> THEN <<>>
    ELSE IF StartsWith(s, old)
         THEN new \o Replace(SubSeq(s, Len(old) + 1, Len(s)), old, new)
    ELSE <<Head(s)>> \o Replace(Tail(s), old, new)

\* line 52
Xpath28(p) ==
    Replace(Replace(p, <<"noise", "Range">>, <<"noise">>),
            <<"noise", "Azimuth">>, <<"noise">>)

\* lines 50-55
or_ipf28(p) == IF Xpath28(p) # p THEN p \o <<" | ">> \o Xpath28(p) ELSE p

RECURSIVE PathOf(_)
\* the absolute path of a sequence of tag names
PathOf(tags) == IF tags = <<>> THEN <<>> ELSE <<"/">> \o Head(tags) \o PathOf(Tail(tags))

\* line 109: '/noise/noiseRangeVectorList/noiseRangeVector/line'
RangeLine ==
    PathOf(<<<<"noise">>, <<"noise", "Range", "Vector", "List">>,
             <<"noise", "Range", "Vector">>, <<"line">>>>)
\* line 114: '/noise/noiseRangeVectorList/noiseRangeVector/noiseRangeLut'
RangeLut ==
    PathOf(<<<<"noise">>, <<"noise", "Range", "Vector", "List">>,
             <<"noise", "Range", "Vector">>, <<"noise", "Range", "Lut">>>>)
\* line 119: '/noise/noiseAzimuthVectorList/noiseAzimuthVector/line'
AziLine ==
    PathOf(<<<<"noise">>, <<"noise", "Azimuth", "Vector", "List">>,
             <<"noise", "Azimuth", "Vector">>, <<"line">>>>)
\* line 107: '/noise/adsHeader/polarisation'
Polarisation == PathOf(<<<<"noise">>, <<"ads", "Header">>, <<"polarisation">>>>)
\* the old schema: '/noise/noiseVectorList/noiseVector/line'
OldLine ==
    PathOf(<<<<"noise">>, <<"noise", "Vector", "List">>, <<"noise", "Vector">>,
             <<"line">>>>)
\* the old schema: '/noise/noiseVectorList/noiseVector/noiseLut'
OldLut ==
    PathOf(<<<<"noise">>, <<"noise", "Vector", "List">>, <<"noise", "Vector">>,
             <<"noise", "Lut">>>>)

(***************************************************************************)
(* The query engine.  A document is the sequence, in document order, of    *)
(* its text elements: the absolute path of the element and its text.  A    *)
(* query is a path or a union of paths; it returns the texts of the        *)
(* elements on one of its paths, in document order.                        *)
(***************************************************************************)
RECURSIVE Alternatives(_, _)
\* the paths of a union: the query split at " | "; acc is the path being read
Alternatives(q, acc) ==
    IF q = <<>> THEN {acc}
    ELSE IF Head(q) = " | " THEN {acc} \cup Alternatives(Tail(q), <<>>)
    ELSE Alternatives(Tail(q), Append(acc, Head(q)))

RECURSIVE Texts(_, _)
\* the texts of the elements of doc whose path is in paths, in document order
Texts(doc, paths) ==
    IF doc = <<>> THEN <<>>
    ELSE (IF Head(doc).path \in paths THEN <<Head(doc).text>> ELSE <<>>)
         \o Texts(Tail(doc), paths)

\* XmlParser.xpath(document, query)
XpathQuery(doc, q) == Texts(doc, Alternatives(q, <<>>))

ElementTexts == {"1", "2"}
\* the documents of up to MaxLeaves text elements on the given paths
Documents(paths) ==
    UNION {[1..n -> [path : paths, text : ElementTexts]] : n \in 0..MaxLeaves}

IpfInit ==
    /\ xpc = "start"
    /\ xpath \in {RangeLine, RangeLut, AziLine, Polarisation, OldLine}
    /\ xpath_mapping = <<>>
    /\ doc29 \in Documents({RangeLine, RangeLut, AziLine})
    /\ doc28 \in Documents({OldLine, OldLut})
    /\ matched29 = <<>>
    /\ matched28 = <<>>

\* lines 50-55, called while xpath_mappings is built (lines 109-114)
OrIpf28 ==
    /\ xpc = "start"
    /\ xpath_mapping' = or_ipf28(xpath)
    /\ xpc' = "mapped"
    /\ UNCHANGED <<xpath, doc29, doc28, matched29, matched28>>

\* the mapping's path evaluated on a file of each schema
QueryDocuments ==
    /\ xpc = "mapped"
    /\ matched29' = XpathQuery(doc29, xpath_mapping)
    /\ matched28' = XpathQuery(doc28, xpath_mapping)
    /\ xpc' = "queried"
    /\ UNCHANGED <<xpath, xpath_mapping, doc29, doc28>>

(***************************************************************************)
(* Order of strings.  A string is the sequence of its characters, ordered  *)
(* as Python orders str: by code point, character after character.         *)
(***************************************************************************)
\* the characters in use, by increasing code point
CodePointOrder == DigitChars \o <<"H", "V">>
Ord(c) == CHOOSE k \in 1..Len(CodePointOrder) : CodePointOrder[k] = c

RECURSIVE StrLess(_, _)
\* a < b for two str
StrLess(a, b) ==
    IF b = <<>> THEN FALSE
    ELSE IF a = <<>> THEN TRUE
    ELSE IF Head(a) # Head(b) THEN Ord(Head(a)) < Ord(Head(b))
    ELSE StrLess(Tail(a), Tail(b))

StrMin(S) == CHOOSE m \in S : \A o \in S \ {m} : StrLess(m, o)

RECURSIVE SortedStr(_)
\* sorted(S) for a set of str
SortedStr(S) == IF S = {} THEN <<>> ELSE <<StrMin(S)>> \o SortedStr(S \ {StrMin(S)})

(***************************************************************************)
(* ordered_category.  A categorical is its categories, in order, and one   *)
(* code per element: the 1-based position of the element's category.       *)
(***************************************************************************)
\* the position of value v in the sequence seq that holds it
PositionIn(seq, v) == CHOOSE k \in 1..Len(seq) : seq[k] = v

\* pd.Categorical(x): the categories are the distinct values, sorted
Categorical(x) ==
    LET categories == SortedStr(SetOf(x))
    IN  [categories |-> categories,
         codes |-> [k \in 1..Len(x) |-> PositionIn(categories, x[k])]]

\* Categorical.reorder_categories accepts new_categories: the same items as
\* the categories, each once
Reorders(cat, new_categories) ==
    /\ SetOf(new_categories) = SetOf(cat.categories)
    /\ Len(new_categories) = Len(cat.categories)

\* Categorical.reorder_categories(new_categories, ordered=True), accepted
ReorderCategories(cat, new_categories) ==
    [categories |-> new_categories,
     codes |-> [k \in 1..Len(cat.codes) |->
                   PositionIn(new_categories, cat.categories[cat.codes[k]])]]

NoCategorical == [status |-> "none", categories |-> <<>>, codes |-> <<>>]

PolarisationNames == {<<"H", "H">>, <<"H", "V">>, <<"V", "H">>, <<"V", "V">>}

CatInit ==
    /\ cpc = "start"
    /\ \E n \in 0..MaxCatLen : cat_x \in [1..n -> PolarisationNames]
    /\ cat_result = NoCategorical

\* line 46
OrderedCategory ==
    /\ cpc = "start"
    /\ Reorders(Categorical(cat_x), cat_x)
    /\ LET cat == ReorderCategories(Categorical(cat_x), cat_x)
       IN  cat_result' = [status |-> "Categorical", categories |-> cat.categories,
                          codes |-> cat.codes]
    /\ cpc' = "returned"
    /\ UNCHANGED cat_x

\* line 46: reorder_categories refuses x, ValueError
OrderedCategoryRaise ==
    /\ cpc = "start"
    /\ ~Reorders(Categorical(cat_x), cat_x)
    /\ cat_result' = [status |-> "ValueError", categories |-> <<>>, codes |-> <<>>]
    /\ cpc' = "raised"
    /\ UNCHANGED cat_x

(***************************************************************************)
(* The registries.  xpath_mappings is the set of its entries, each the     *)
(* sequence of keys that leads to it.  A dependency name of compounds_vars *)
(* is the sequence of its lexemes: identifiers, "." and " ".               *)
(***************************************************************************)
\* lines 74-215
xpath_mappings ==
    {<<"manifest", "ipf_version">>, <<"manifest", "swath_type">>,
     <<"manifest", "polarizations">>, <<"manifest", "footprints">>,
     <<"manifest", "product_type">>, <<"manifest", "mission">>,
     <<"manifest", "satellite">>, <<"manifest", "start_date">>,
     <<"manifest", "stop_date">>, <<"manifest", "annotation_files">>,
     <<"manifest", "measurement_files">>, <<"manifest", "noise_files">>,
     <<"manifest", "calibration_files">>, <<"calibration", "polarization">>,
     <<"calibration", "atrack">>, <<"calibration", "xtrack">>,
     <<"calibration", "sigma0_lut">>, <<"calibration", "gamma0_lut">>,
     <<"noise", "polarization">>, <<"noise", "range", "atrack">>,
     <<"noise", "range", "xtrack">>, <<"noise", "range", "noiseLut">>,
     <<"noise", "azi", "swath">>, <<"noise", "azi", "atrack">>,
     <<"noise", "azi", "atrack_start">>, <<"noise", "azi", "atrack_stop">>,
     <<"noise", "azi", "xtrack_start">>, <<"noise", "azi", "xtrack_stop">>,
     <<"noise", "azi", "noiseLut">>, <<"annotation", "atrack">>,
     <<"annotation", "xtrack">>, <<"annotation", "atrack_grid">>,
     <<"annotation", "xtrack_grid">>, <<"annotation", "incidence">>,
     <<"annotation", "elevation">>, <<"annotation", "height">>,
     <<"annotation", "azimuth_time">>, <<"annotation", "slant_range_time">>,
     <<"annotation", "longitude">>, <<"annotation", "latitude">>,
     <<"annotation", "number_pts_geolocation_grid">>,
     <<"annotation", "polarization">>, <<"annotation", "atrack_time_range">>,
     <<"annotation", "denoised">>, <<"annotation", "pol">>,
     <<"annotation", "pass">>, <<"annotation", "platform_heading">>,
     <<"annotation", "number_of_bursts">>,
     <<"annotation", "number_of_lines">>,
     <<"annotation", "incidence_angle_mid_swath">>,
     <<"annotation", "number_of_samples">>,
     <<"annotation", "lines_per_burst">>,
     <<"annotation", "samples_per_burst">>,
     <<"annotation", "azimuth_time_interval">>,
     <<"annotation", "all_bursts">>, <<"annotation", "burst_azimuthTime">>,
     <<"annotation", "burst_azimuthAnxTime">>,
     <<"annotation", "burst_sensingTime">>,
     <<"annotation", "burst_byteOffset">>,
     <<"annotation", "burst_firstValidSample">>,
     <<"annotation", "burst_lastValidSample">>,
     <<"annotation", "radar_frequency">>,
     <<"annotation", "nb_state_vector">>, <<"annotation", "nb_fmrate">>,
     <<"annotation", "fmrate_azimuthtime">>, <<"annotation", "fmrate_t0">>,
     <<"annotation", "fmrate_c0">>, <<"annotation", "fmrate_c1">>,
     <<"annotation", "fmrate_c2">>,
     <<"annotation", "fmrate_azimuthFmRatePolynomial">>,
     <<"annotation", "orbit_time">>, <<"annotation", "orbit_frame">>,
     <<"annotation", "orbit_pos_x">>, <<"annotation", "orbit_pos_y">>,
     <<"annotation", "orbit_pos_z">>, <<"annotation", "orbit_vel_x">>,
     <<"annotation", "orbit_vel_y">>, <<"annotation", "orbit_vel_z">>,
     <<"annotation", "azimuth_steering_rate">>,
     <<"annotation", "nb_dcestimate">>, <<"annotation", "nb_geoDcPoly">>,
     <<"annotation", "nb_dataDcPoly">>, <<"annotation", "nb_fineDce">>,
     <<"annotation", "dc_azimuth_time">>, <<"annotation", "dc_t0">>,
     <<"annotation", "dc_geoDcPoly">>, <<"annotation", "dc_dataDcPoly">>,
     <<"annotation", "dc_rmserr">>, <<"annotation", "dc_rmserrAboveThres">>,
     <<"annotation", "dc_azstarttime">>, <<"annotation", "dc_azstoptime">>,
     <<"annotation", "dc_slantRangeTime">>, <<"annotation", "dc_frequency">>,
     <<"annotation", "range_sampling_rate">>,
     <<"annotation", "slant_range_time_image">>,
     <<"annotation", "rangePixelSpacing">>,
     <<"annotation", "azimuthPixelSpacing">>}

\* lines 610-714; func is "" for an alias, a pair of aliases or a table of
\* aliases, whose names are then the dependencies
compounds_vars ==
  <<
     [name |-> "safe_attributes", func |-> "",
      deps |-> <<
          <<"manifest", ".", "ipf_version">>,
          <<"manifest", ".", "swath_type">>,
          <<"manifest", ".", "polarizations">>,
          <<"manifest", ".", "product_type">>,
          <<"manifest", ".", "mission">>, <<"manifest", ".", "satellite">>,
          <<"manifest", ".", "start_date">>,
          <<"manifest", ".", "stop_date">>, <<"manifest", ".", "footprints">>>>],
     [name |-> "files", func |-> "df_files",
      deps |-> <<
          <<"manifest", ".", "annotation_files">>,
          <<"manifest", ".", "measurement_files">>,
          <<"manifest", ".", "noise_files">>,
          <<"manifest", ".", "calibration_files">>>>],
     [name |-> "sigma0_lut", func |-> "signal_lut",
      deps |-> <<
          <<"calibration", ".", "atrack">>, <<"calibration", ".", "xtrack">>,
          <<"calibration", ".", "sigma0_lut">>>>],
     [name |-> "gamma0_lut", func |-> "signal_lut",
      deps |-> <<
          <<"calibration", ".", "atrack">>, <<"calibration", ".", "xtrack">>,
          <<"calibration", ".", "gamma0_lut">>>>],
     [name |-> "noise_lut_range", func |-> "noise_lut_range",
      deps |-> <<
          <<"noise", ".", "range", ".", "atrack">>,
          <<"noise", ".", "range", ".", "xtrack">>,
          <<"noise", ".", "range", ".", "noiseLut">>>>],
     [name |-> "noise_lut_azi", func |-> "noise_lut_azi",
      deps |-> <<
          <<"noise", ".", "azi", ".", "atrack">>,
          <<"noise", ".", "azi", ".", "atrack_start">>,
          <<"noise", ".", "azi", ".", "atrack_stop">>,
          <<"noise", ".", "azi", ".", "xtrack_start">>,
          <<"noise", ".", "azi", ".", "xtrack_stop">>,
          <<"noise", ".", "azi", ".", "noiseLut">>,
          <<"noise", ".", "azi", ".", "swath">>>>],
     [name |-> "denoised", func |-> "",
      deps |-> <<
          <<"annotation", ".", "pol">>, <<"annotation", ".", "denoised">>>>],
     [name |-> "incidence", func |-> "geolocation_grid",
      deps |-> <<
          <<"annotation", ".", "atrack">>, <<"annotation", ".", "xtrack">>,
          <<"annotation", ".", "incidence">>>>],
     [name |-> "elevation", func |-> "geolocation_grid",
      deps |-> <<
          <<"annotation", ".", "atrack">>, <<"annotation", ".", "xtrack">>,
          <<"annotation", ".", "elevation">>>>],
     [name |-> "longitude", func |-> "geolocation_grid",
      deps |-> <<
          <<"annotation", ".", "atrack">>, <<"annotation", ".", "xtrack">>,
          <<"annotation", ".", "longitude">>>>],
     [name |-> "latitude", func |-> "geolocation_grid",
      deps |-> <<
          <<"annotation", ".", "atrack">>, <<"annotation", ".", "xtrack">>,
          <<"annotation", ".", "latitude">>>>],
     [name |-> "height", func |-> "geolocation_grid",
      deps |-> <<
          <<"annotation", ".", "atrack">>, <<"annotation", ".", "xtrack">>,
          <<"annotation", ".", "height">>>>],
     [name |-> "azimuth_time", func |-> "geolocation_grid",
      deps |-> <<
          <<"annotation", ".", "atrack">>, <<"annotation", ".", "xtrack">>,
          <<"annotation", ".", "azimuth_time">>>>],
     [name |-> "slant_range_time", func |-> "geolocation_grid",
      deps |-> <<
          <<"annotation", ".", "atrack">>, <<"annotation", ".", "xtrack">>,
          <<"annotation", ".", "slant_range_time">>>>],
     [name |-> "bursts", func |-> "bursts",
      deps |-> <<
          <<"annotation", ".", "lines_per_burst">>,
          <<"annotation", ".", " ", "samples_per_burst">>,
          <<"annotation", ".", " ", "burst_azimuthTime">>,
          <<"annotation", ".", " ", "burst_azimuthAnxTime">>,
          <<"annotation", ".", " ", "burst_sensingTime">>,
          <<"annotation", ".", "burst_byteOffset">>,
          <<"annotation", ".", " ", "burst_firstValidSample">>,
          <<"annotation", ".", "burst_lastValidSample">>>>],
     [name |-> "orbit", func |-> "orbit",
      deps |-> <<
          <<"annotation", ".", "orbit_time">>,
          <<"annotation", ".", "orbit_frame">>,
          <<"annotation", ".", "orbit_pos_x">>,
          <<"annotation", ".", "orbit_pos_y">>,
          <<"annotation", ".", "orbit_pos_z">>,
          <<"annotation", ".", "orbit_vel_x">>,
          <<"annotation", ".", "orbit_vel_y">>,
          <<"annotation", ".", "orbit_vel_z">>,
          <<"annotation", ".", "pass">>,
          <<"annotation", ".", "platform_heading">>>>],
     [name |-> "azimuth_fmrate", func |-> "azimuth_fmrate",
      deps |-> <<
          <<"annotation", ".", "fmrate_azimuthtime">>,
          <<"annotation", ".", "fmrate_t0">>,
          <<"annotation", ".", "fmrate_c0">>,
          <<"annotation", ".", "fmrate_c1">>,
          <<"annotation", ".", "fmrate_c2">>,
          <<"annotation", ".", "fmrate_azimuthFmRatePolynomial">>>>],
     [name |-> "doppler_estimate", func |-> "doppler_centroid_estimates",
      deps |-> <<
          <<"annotation", ".", "nb_dcestimate">>,
          <<"annotation", ".", "nb_geoDcPoly">>,
          <<"annotation", ".", "nb_dataDcPoly">>,
          <<"annotation", ".", "nb_fineDce">>,
          <<"annotation", ".", "dc_azimuth_time">>,
          <<"annotation", ".", "dc_t0">>,
          <<"annotation", ".", "dc_geoDcPoly">>,
          <<"annotation", ".", "dc_dataDcPoly">>,
          <<"annotation", ".", "dc_rmserr">>,
          <<"annotation", ".", "dc_rmserrAboveThres">>,
          <<"annotation", ".", "dc_azstarttime">>,
          <<"annotation", ".", "dc_azstoptime">>,
          <<"annotation", ".", "dc_slantRangeTime">>,
          <<"annotation", ".", "dc_frequency">>>>],
     [name |-> "subswath_image", func |-> "subswath_image",
      deps |-> <<
          <<"annotation", ".", "number_of_lines">>,
          <<"annotation", ".", "range_sampling_rate">>,
          <<"annotation", ".", "azimuth_steering_rate">>,
          <<"annotation", ".", "slant_range_time_image">>,
          <<"annotation", ".", "azimuth_time_interval">>,
          <<"annotation", ".", "radar_frequency">>,
          <<"annotation", ".", "number_of_samples">>,
          <<"annotation", ".", "incidence_angle_mid_swath">>>>]
  >>

\* the number of positional parameters of each composer (its def line)
Parameters(func) ==
    CASE func = "signal_lut" -> 3
      [] func = "noise_lut_range" -> 3
      [] func = "noise_lut_azi" -> 7
      [] func = "df_files" -> 4
      [] func = "geolocation_grid" -> 3
      [] func = "bursts" -> 8
      [] func = "orbit" -> 10
      [] func = "doppler_centroid_estimates" -> 14
      [] func = "subswath_image" -> 8
      [] func = "azimuth_fmrate" -> 6

\* jmespath's lexer: white space between tokens is skipped
Lexemes(name) == SelectSeq(name, LAMBDA l : l # " ")
\* jmespath's parser on identifier ("." identifier)*: the keys, in order
KeyPath(name) ==
    LET tokens == Lexemes(name)
    IN  [k \in 1..((Len(tokens) + 1) \div 2) |-> tokens[2 * k - 1]]

None == [found |-> FALSE, entry |-> <<>>]
\* jmespath.search(name, ...): the entry of xpath_mappings, or None
Search(name) ==
    IF KeyPath(name) \in xpath_mappings
    THEN [found |-> TRUE, entry |-> KeyPath(name)]
    ELSE None

NoCompound == [status |-> "none", func |-> "", args |-> <<>>]

CompoundInit ==
    /\ kpc = "fetch"
    /\ compound \in 1..Len(compounds_vars)
    /\ dependency = 1
    /\ fetched = <<>>
    /\ compound_value = NoCompound

\* the value of the next dependency name is fetched
Fetch ==
    /\ kpc = "fetch"
    /\ dependency <= Len(compounds_vars[compound].deps)
    /\ fetched' = Append(fetched, Search(compounds_vars[compound].deps[dependency]))
    /\ dependency' = dependency + 1
    /\ UNCHANGED <<kpc, compound, compound_value>>

\* the composer is applied positionally: func(*args)
Compose ==
    /\ kpc = "fetch"
    /\ dependency > Len(compounds_vars[compound].deps)
    /\ compounds_vars[compound].func # ""
    /\ compound_value' =
          [status |-> IF Len(fetched) = Parameters(compounds_vars[compound].func)
                      THEN "composed" ELSE "TypeError",
           func |-> compounds_vars[compound].func, args |-> fetched]
    /\ kpc' = "resolved"
    /\ UNCHANGED <<compound, dependency, fetched>>

\* an alias, a pair or a table of aliases: the fetched values themselves
Alias ==
    /\ kpc = "fetch"
    /\ dependency > Len(compounds_vars[compound].deps)
    /\ compounds_vars[compound].func = ""
    /\ compound_value' = [status |-> "alias", func |-> "", args |-> fetched]
    /\ kpc' = "resolved"
    /\ UNCHANGED <<compound, dependency, fetched>>

(***************************************************************************)
(* uniq_sorted, on the texts of the line or pixel elements of the          *)
(* geolocation grid points: decimal strings.                               *)
(***************************************************************************)
\* line 45: np.array(sorted(set(x)))
uniq_sorted(x) == SortedStr(SetOf(x))

UniqInit ==
    /\ upc = "start"
    /\ \E n \in 0..MaxUniqLen : uniq_x \in [1..n -> {DecDigits(v) : v \in 0..MaxPixel}]
    /\ uniq_result = <<>>

\* line 45
UniqSorted ==
    /\ upc = "start"
    /\ uniq_result' = uniq_sorted(uniq_x)
    /\ upc' = "returned"
    /\ UNCHANGED uniq_x

(***************************************************************************)
(* Specifications: one per part of the program.                            *)
(***************************************************************************)
RangeIdle ==
    /\ rpc = "idle"
    /\ lut_atracks = <<>>
    /\ atracks_start = <<>>
    /\ atracks_stop = <<>>

LutIdle ==
    /\ pc = "idle"
    /\ ctor = [by |-> "none", n |-> 0]
    /\ blocks = <<>>
    /\ atracks = <<>>
    /\ xtracks = <<>>
    /\ noise = <<>>
    /\ match_blocks = <<>>
    /\ it = 0
    /\ sub = NoSub
    /\ result = NoResult

FileIdle ==
    /\ fpc = "idle"
    /\ annotation_files = <<>>
    /\ pols = <<>>
    /\ num = <<>>
    /\ dsid = <<>>
    /\ df = <<>>

BurstIdle ==
    /\ bpc = "idle"
    /\ lines_per_burst = 0
    /\ samples_per_burst = 0
    /\ burst_firstValidSample = <<>>
    /\ burst_lastValidSample = <<>>
    /\ ibur = 0
    /\ valid_locations = <<>>
    /\ bursts_result = NoBursts

FmrateIdle ==
    /\ mpc = "idle"
    /\ fmrate_t0 = <<>>
    /\ fmrate_c0 = <<>>
    /\ fmrate_c1 = <<>>
    /\ fmrate_c2 = <<>>
    /\ fmrate_azimuthFmRatePolynomial = <<>>
    /\ polynomial = <<>>
    /\ fmrate_result = NoFmrate

GeoIdle ==
    /\ gpc = "idle"
    /\ geo_atrack = <<>>
    /\ geo_xtrack = <<>>
    /\ geo_values = <<>>
    /\ geo_result = NoGrid

IpfIdle ==
    /\ xpc = "idle"
    /\ xpath = <<>>
    /\ xpath_mapping = <<>>
    /\ doc29 = <<>>
    /\ doc28 = <<>>
    /\ matched29 = <<>>
    /\ matched28 = <<>>

CatIdle ==
    /\ cpc = "idle"
    /\ cat_x = <<>>
    /\ cat_result = NoCategorical

CompoundIdle ==
    /\ kpc = "idle"
    /\ compound = 0
    /\ dependency = 0
    /\ fetched = <<>>
    /\ compound_value = NoCompound

UniqIdle ==
    /\ upc = "idle"
    /\ uniq_x = <<>>
    /\ uniq_result = <<>>

\* noise_lut_range's intervals
InitRange ==
    /\ RangeInit
    /\ LutIdle /\ FileIdle /\ BurstIdle /\ FmrateIdle /\ GeoIdle /\
       IpfIdle /\ CatIdle /\ CompoundIdle /\ UniqIdle
NextRange ==
    \/ RangeStart /\ UNCHANGED <<lutVars, fileVars, burstVars, fmrateVars,
                                 geoVars, ipfVars, catVars, compoundVars,
                                 uniqVars>>
    \/ RangeStop /\ UNCHANGED <<lutVars, fileVars, burstVars, fmrateVars,
                                geoVars, ipfVars, catVars, compoundVars,
                                uniqVars>>
    \/ RangeStopLast /\ UNCHANGED <<lutVars, fileVars, burstVars, fmrateVars,
                                    geoVars, ipfVars, catVars, compoundVars,
                                    uniqVars>>
SpecRange == InitRange /\ [][NextRange]_vars

\* a LUT is built, then evaluated once
InitLut ==
    /\ LutInit
    /\ RangeIdle /\ FileIdle /\ BurstIdle /\ FmrateIdle /\ GeoIdle /\
       IpfIdle /\ CatIdle /\ CompoundIdle /\ UniqIdle
NextLut ==
    \/ NoiseLutRange /\ UNCHANGED <<rangeVars, fileVars, burstVars,
                                    fmrateVars, geoVars, ipfVars, catVars,
                                    compoundVars, uniqVars>>
    \/ NoiseLutAzi /\ UNCHANGED <<rangeVars, fileVars, burstVars, fmrateVars,
                                  geoVars, ipfVars, catVars, compoundVars,
                                  uniqVars>>
    \/ NoiseLutNew /\ UNCHANGED <<rangeVars, fileVars, burstVars, fmrateVars,
                                  geoVars, ipfVars, catVars, compoundVars,
                                  uniqVars>>
    \/ Call /\ UNCHANGED <<rangeVars, fileVars, burstVars, fmrateVars,
                           geoVars, ipfVars, catVars, compoundVars, uniqVars>>
    \/ LoopBlock /\ UNCHANGED <<rangeVars, fileVars, burstVars, fmrateVars,
                                geoVars, ipfVars, catVars, compoundVars,
                                uniqVars>>
    \/ Return /\ UNCHANGED <<rangeVars, fileVars, burstVars, fmrateVars,
                             geoVars, ipfVars, catVars, compoundVars,
                             uniqVars>>
SpecLut == InitLut /\ [][NextLut]_vars

\* df_files on the annotation files of one product
InitFiles ==
    /\ FileInit
    /\ RangeIdle /\ LutIdle /\ BurstIdle /\ FmrateIdle /\ GeoIdle /\
       IpfIdle /\ CatIdle /\ CompoundIdle /\ UniqIdle
NextFiles ==
    \/ DfFilesParse /\ UNCHANGED <<rangeVars, lutVars, burstVars, fmrateVars,
                                   geoVars, ipfVars, catVars, compoundVars,
                                   uniqVars>>
    \/ DfFilesUnique /\ UNCHANGED <<rangeVars, lutVars, burstVars,
                                    fmrateVars, geoVars, ipfVars, catVars,
                                    compoundVars, uniqVars>>
    \/ DfFilesReturn /\ UNCHANGED <<rangeVars, lutVars, burstVars,
                                    fmrateVars, geoVars, ipfVars, catVars,
                                    compoundVars, uniqVars>>
SpecFiles == InitFiles /\ [][NextFiles]_vars

\* bursts on the burst list of one sub-swath
InitBursts ==
    /\ BurstInit
    /\ RangeIdle /\ LutIdle /\ FileIdle /\ FmrateIdle /\ GeoIdle /\
       IpfIdle /\ CatIdle /\ CompoundIdle /\ UniqIdle
NextBursts ==
    \/ BurstsNone /\ UNCHANGED <<rangeVars, lutVars, fileVars, fmrateVars,
                                 geoVars, ipfVars, catVars, compoundVars,
                                 uniqVars>>
    \/ BurstsConvert /\ UNCHANGED <<rangeVars, lutVars, fileVars, fmrateVars,
                                    geoVars, ipfVars, catVars, compoundVars,
                                    uniqVars>>
    \/ BurstsLoop /\ UNCHANGED <<rangeVars, lutVars, fileVars, fmrateVars,
                                 geoVars, ipfVars, catVars, compoundVars,
                                 uniqVars>>
    \/ BurstsStoreRaise /\ UNCHANGED <<rangeVars, lutVars, fileVars,
                                       fmrateVars, geoVars, ipfVars, catVars,
                                       compoundVars, uniqVars>>
    \/ BurstsRaise /\ UNCHANGED <<rangeVars, lutVars, fileVars, fmrateVars,
                                  geoVars, ipfVars, catVars, compoundVars,
                                  uniqVars>>
    \/ BurstsReturn /\ UNCHANGED <<rangeVars, lutVars, fileVars, fmrateVars,
                                   geoVars, ipfVars, catVars, compoundVars,
                                   uniqVars>>
SpecBursts == InitBursts /\ [][NextBursts]_vars

\* azimuth_fmrate on the FM-rate records of one annotation file
InitFmrate ==
    /\ FmrateInit
    /\ RangeIdle /\ LutIdle /\ FileIdle /\ BurstIdle /\ GeoIdle /\ IpfIdle /\
       CatIdle /\ CompoundIdle /\ UniqIdle
NextFmrate ==
    \/ FmrateOldAnnotation /\ UNCHANGED <<rangeVars, lutVars, fileVars,
                                          burstVars, geoVars, ipfVars,
                                          catVars, compoundVars, uniqVars>>
    \/ FmrateStackRaise /\ UNCHANGED <<rangeVars, lutVars, fileVars,
                                       burstVars, geoVars, ipfVars, catVars,
                                       compoundVars, uniqVars>>
    \/ FmrateCombined /\ UNCHANGED <<rangeVars, lutVars, fileVars, burstVars,
                                     geoVars, ipfVars, catVars, compoundVars,
                                     uniqVars>>
    \/ FmrateReturn /\ UNCHANGED <<rangeVars, lutVars, fileVars, burstVars,
                                   geoVars, ipfVars, catVars, compoundVars,
                                   uniqVars>>
    \/ FmrateFrameRaise /\ UNCHANGED <<rangeVars, lutVars, fileVars,
                                       burstVars, geoVars, ipfVars, catVars,
                                       compoundVars, uniqVars>>
SpecFmrate == InitFmrate /\ [][NextFmrate]_vars

\* geolocation_grid on one quantity of the geolocation grid
InitGeo ==
    /\ GeoInit
    /\ RangeIdle /\ LutIdle /\ FileIdle /\ BurstIdle /\ FmrateIdle /\
       IpfIdle /\ CatIdle /\ CompoundIdle /\ UniqIdle
NextGeo ==
    \/ GeolocationGrid /\ UNCHANGED <<rangeVars, lutVars, fileVars,
                                      burstVars, fmrateVars, ipfVars,
                                      catVars, compoundVars, uniqVars>>
    \/ GeolocationGridRaise /\ UNCHANGED <<rangeVars, lutVars, fileVars,
                                           burstVars, fmrateVars, ipfVars,
                                           catVars, compoundVars, uniqVars>>
SpecGeo == InitGeo /\ [][NextGeo]_vars

\* or_ipf28 on a path, and the query on a noise file of each schema
InitIpf ==
    /\ IpfInit
    /\ RangeIdle /\ LutIdle /\ FileIdle /\ BurstIdle /\ FmrateIdle /\
       GeoIdle /\ CatIdle /\ CompoundIdle /\ UniqIdle
NextIpf ==
    \/ OrIpf28 /\ UNCHANGED <<rangeVars, lutVars, fileVars, burstVars,
                              fmrateVars, geoVars, catVars, compoundVars,
                              uniqVars>>
    \/ QueryDocuments /\ UNCHANGED <<rangeVars, lutVars, fileVars, burstVars,
                                     fmrateVars, geoVars, catVars,
                                     compoundVars, uniqVars>>
SpecIpf == InitIpf /\ [][NextIpf]_vars

\* ordered_category on one list of strings
InitCat ==
    /\ CatInit
    /\ RangeIdle /\ LutIdle /\ FileIdle /\ BurstIdle /\ FmrateIdle /\
       GeoIdle /\ IpfIdle /\ CompoundIdle /\ UniqIdle
NextCat ==
    \/ OrderedCategory /\ UNCHANGED <<rangeVars, lutVars, fileVars,
                                      burstVars, fmrateVars, geoVars,
                                      ipfVars, compoundVars, uniqVars>>
    \/ OrderedCategoryRaise /\ UNCHANGED <<rangeVars, lutVars, fileVars,
                                           burstVars, fmrateVars, geoVars,
                                           ipfVars, compoundVars, uniqVars>>
SpecCat == InitCat /\ [][NextCat]_vars

\* one compound variable is resolved
InitCompound ==
    /\ CompoundInit
    /\ RangeIdle /\ LutIdle /\ FileIdle /\ BurstIdle /\ FmrateIdle /\
       GeoIdle /\ IpfIdle /\ CatIdle /\ UniqIdle
NextCompound ==
    \/ Fetch /\ UNCHANGED <<rangeVars, lutVars, fileVars, burstVars,
                            fmrateVars, geoVars, ipfVars, catVars, uniqVars>>
    \/ Compose /\ UNCHANGED <<rangeVars, lutVars, fileVars, burstVars,
                              fmrateVars, geoVars, ipfVars, catVars,
                              uniqVars>>
    \/ Alias /\ UNCHANGED <<rangeVars, lutVars, fileVars, burstVars,
                            fmrateVars, geoVars, ipfVars, catVars, uniqVars>>
SpecCompound == InitCompound /\ [][NextCompound]_vars

\* uniq_sorted on one list of decimal strings
InitUniq ==
    /\ UniqInit
    /\ RangeIdle /\ LutIdle /\ FileIdle /\ BurstIdle /\ FmrateIdle /\
       GeoIdle /\ IpfIdle /\ CatIdle /\ CompoundIdle
NextUniq ==
    \/ UniqSorted /\ UNCHANGED <<rangeVars, lutVars, fileVars, burstVars,
                                 fmrateVars, geoVars, ipfVars, catVars,
                                 compoundVars>>
SpecUniq == InitUniq /\ [][NextUniq]_vars

(***************************************************************************)
(* Claims about noise_lut_range's intervals (SpecRange).                   *)
(***************************************************************************)
IntervalsDone == rpc = "intervals"

\* C1, as stated: for n >= 2 samples every interval starts where the previous
\* one stops, atracks_start[i] = atracks_stop[i-1].
C1_StartEqualsPreviousStop ==
    (IntervalsDone /\ Len(lut_atracks) >= 2) =>
        \A i \in 2..Len(lut_atracks) : atracks_start[i] = atracks_stop[i - 1]

\* C1, amended: the start is the midpoint of samples i-1 and i rounded down
\* and the previous stop is that midpoint rounded up.  They are equal when
\* the two samples add up to an even number; otherwise the start is one line
\* below the previous stop (an overlap of one line, never a gap).
C1_StartWithinOneOfPreviousStop ==
    (IntervalsDone /\ Len(lut_atracks) >= 2) =>
        \A i \in 2..Len(lut_atracks) :
            atracks_stop[i - 1] - atracks_start[i] = (lut_atracks[i - 1] + lut_atracks[i]) % 2

\* C1's case: two consecutive samples with an odd sum, intervals derived
C1_Witness ==
    /\ IntervalsDone
    /\ \E i \in 2..Len(lut_atracks) :
          /\ (lut_atracks[i - 1] + lut_atracks[i]) % 2 = 1
          /\ atracks_start[i] = atracks_stop[i - 1] - 1

\* whether line is inside one of the closed intervals [start[i], stop[i]]
Covered(line) ==
    \E i \in 1..Len(lut_atracks) : atracks_start[i] <= line /\ line <= atracks_stop[i]

\* C2: the first interval starts at line 0, the last one stops at 65535 and
\* every line of 0..65535 is inside some interval.
C2_FullCoverage ==
    IntervalsDone =>
        /\ atracks_start[1] = 0
        /\ atracks_stop[Len(lut_atracks)] = Sentinel
        /\ \A line \in 0..Sentinel : Covered(line)

(***************************************************************************)
(* Claims about _NoiseLut.__call__ and the blocks it evaluates (SpecLut).  *)
(***************************************************************************)
Returned == pc = "done" /\ result.kind = "array"
Rows == 1..Len(atracks)
Cols == 1..Len(xtracks)

\* C3: a block writes only at query coordinates inside the intersection of
\* its bounding region with the half-pixel-expanded query rectangle.
C3_WritesInsideIntersection ==
    sub.blk > 0 =>
        \A p \in 1..Len(sub.sub_a), q \in 1..Len(sub.sub_x) :
            Contains(match_blocks[sub.blk].geometry, sub.sub_a[p], sub.sub_x[q])

\* the blocks of match_blocks that select position (i, j) of the output
Writers(i, j) ==
    {k \in 1..Len(match_blocks) : Selects(match_blocks[k], atracks[i], xtracks[j])}

\* C4: where several intersecting blocks select the same query coordinate,
\* the returned value there is the one of the block that comes last in the
\* iteration order; no earlier block's value survives.
C4_LastBlockWins ==
    Returned =>
        \A i \in Rows, j \in Cols :
            Writers(i, j) # {} =>
                result.v[i][j] =
                    BlockValueAt(match_blocks[SetMax(Writers(i, j))], atracks[i], xtracks[j])

\* C4's case: two blocks give different values at one coordinate, evaluation returned
C4_Witness ==
    /\ Returned
    /\ \E i \in Rows, j \in Cols :
          /\ Cardinality(Writers(i, j)) >= 2
          /\ BlockValueAt(match_blocks[SetMin(Writers(i, j))], atracks[i], xtracks[j])
               # BlockValueAt(match_blocks[SetMax(Writers(i, j))], atracks[i], xtracks[j])

\* every query coordinate pair is outside every block's bounding region
QueryOutsideAllBlocks ==
    \A i \in Rows, j \in Cols, k \in 1..Len(blocks) :
        ~Contains(blocks[k].geometry, atracks[i], xtracks[j])

\* C5: with a non-empty block collection, a query whose coordinates are all
\* outside every block's region returns, without error, an array of shape
\* (len(atracks), len(xtracks)) that is not-a-number everywhere.
C5_OutsideEveryBlockIsNaN ==
    (pc = "done" /\ Len(blocks) > 0 /\ atracks # <<>> /\ xtracks # <<>>
        /\ QueryOutsideAllBlocks) =>
        /\ result.kind = "array"
        /\ result.v = NanArray(Len(atracks), Len(xtracks))

\* C6: a _NoiseLut with no block evaluates to the scalar 1 whatever the
\* coordinate arrays are (empty arrays included), and builds no array.
C6_EmptyLutIsScalarOne ==
    (pc = "done" /\ Len(blocks) = 0) =>
        /\ result = [kind |-> "scalar", v |-> 1]
        /\ noise = <<>>

\* C6's case: an empty collection evaluated on coordinates it could not index
C6_Witness ==
    /\ pc = "done"
    /\ Len(blocks) = 0
    /\ atracks = <<>>
    /\ result.kind = "scalar"

\* C7: noise_lut_azi with zero records gives one block on (0,0)-(65535,65535)
\* with the constant 1, and that LUT evaluates to 1 at every position of any
\* non-empty ascending query within 0..65535.
C7_NoAzimuthNoiseIsOne ==
    (ctor = [by |-> "azi", n |-> 0]) =>
        /\ Len(blocks) = 1
        /\ blocks[1].geometry = Box(0, 0, 2 * 65535, 2 * 65535)
        /\ \A a \in {0, MaxCoord, Sentinel}, x \in {0, MaxX} : BlockValueAt(blocks[1], a, x) = One
        /\ (pc = "done" /\ atracks # <<>> /\ xtracks # <<>>) =>
              /\ result.kind = "array"
              /\ result.v = [i \in Rows |-> [j \in Cols |-> One]]

\* C7's case: the LUT of zero records evaluated up to line 65535
C7_Witness ==
    /\ ctor = [by |-> "azi", n |-> 0]
    /\ Returned
    /\ Len(atracks) = 2
    /\ atracks[2] = Sentinel
    /\ Len(xtracks) >= 2

\* C8: a block of noise_lut_azi with a one-sample profile returns, for the
\* coordinates it is called with, one row per along-track coordinate and one
\* column per cross-track coordinate, all equal to the sample.  (Stated for
\* calls with at least one along-track coordinate.)
C8_SingleSampleBlockIsConstant ==
    (sub.blk > 0 /\ match_blocks[sub.blk].kind = "azi"
        /\ Len(match_blocks[sub.blk].vals) = 1 /\ sub.sub_a # <<>>) =>
        /\ sub.lut.shape = <<Len(sub.sub_a), Len(sub.sub_x)>>
        /\ \A p \in 1..Len(sub.sub_a), q \in 1..Len(sub.sub_x) :
              sub.lut.v[p][q] = Frac(match_blocks[sub.blk].vals[1], 1)

(***************************************************************************)
(* Claims about df_files (SpecFiles).                                      *)
(***************************************************************************)
\* what the claims read off the file names, field by field
FileCount == Len(annotation_files)
PolFields == {annotation_files[k][4] : k \in 1..FileCount}
IdFields == {annotation_files[k][2] : k \in 1..FileCount}
NumFields == {annotation_files[k][9] : k \in 1..FileCount}
SubdsCount == FileCount \div Cardinality(PolFields)
TableIds == {df[k].dsid : k \in 1..Len(df)}

\* the raw ids do not give one id per sub-dataset, and neither do the
\* file sequence numbers
CannotDisambiguate ==
    /\ Cardinality(IdFields) # SubdsCount
    /\ Cardinality(NumFields) # SubdsCount

\* C9: a returned table has as many distinct dataset ids as there are
\* sub-datasets (files divided by distinct polarizations), and df_files fails
\* instead of returning exactly when re-synthesis cannot reach that count.
C9_UniqueIdPerSubdataset ==
    /\ fpc = "returned" =>
          /\ Len(df) = FileCount
          /\ Cardinality(TableIds) = SubdsCount
    /\ (fpc \in {"returned", "AssertionError"} /\ FileCount > 0) =>
          (fpc = "AssertionError" <=> CannotDisambiguate)

\* C9's case: the raw ids collided, ids were re-synthesized and a table returned
C9_Witness ==
    /\ fpc = "returned"
    /\ Cardinality(IdFields) # SubdsCount
    /\ Cardinality(PolFields) = 2
    /\ SubdsCount = 3

\* two polarizations times three sub-datasets, every file with the raw id wv1
TwoByThreeSharingWv1 ==
    /\ FileCount = 6
    /\ Cardinality(PolFields) = 2
    /\ IdFields = {<<"w", "v", "1">>}

\* the files of each polarization are numbered 001, 002, 003
NumberedWithinPolarization ==
    \A pol \in PolFields :
        {annotation_files[k][9] : k \in {m \in 1..FileCount : annotation_files[m][4] = pol}}
            = {<<"0", "0", "1">>, <<"0", "0", "2">>, <<"0", "0", "3">>}

DfFilesEnded == fpc \notin {"args", "parsed", "unique"}
WvIds == {<<"W", "V", "_", "0", "0", "1">>, <<"W", "V", "_", "0", "0", "2">>,
          <<"W", "V", "_", "0", "0", "3">>}

\* C10, as stated: for any such files df_files returns a table holding
\* exactly the three ids WV_001, WV_002, WV_003.
C10_ThreeWvIds ==
    (TwoByThreeSharingWv1 /\ DfFilesEnded) =>
        /\ fpc = "returned"
        /\ TableIds = WvIds

\* C10, amended: when moreover the files of each polarization carry the
\* sequence numbers 001, 002, 003, df_files returns, and the table holds
\* exactly the three ids WV_001, WV_002, WV_003, each row's id made of the
\* radical WV, an underscore and the row's own file sequence number.
C10_ThreeWvIdsFromSequenceNumbers ==
    (TwoByThreeSharingWv1 /\ NumberedWithinPolarization /\ DfFilesEnded) =>
        /\ fpc = "returned"
        /\ TableIds = WvIds
        /\ \A k \in 1..Len(df) :
              /\ df[k].index \in 1..3
              /\ df[k].dsid = <<"W", "V", "_", "0", "0", DigitChars[df[k].index + 1]>>
              /\ annotation_files[k][9] = <<"0", "0", DigitChars[df[k].index + 1]>>

\* C10's case: the table of such a product
C10_Witness ==
    /\ TwoByThreeSharingWv1
    /\ NumberedWithinPolarization
    /\ fpc = "returned"
    /\ Len(df) = 6

(***************************************************************************)
(* Claims about bursts (SpecBursts).                                       *)
(***************************************************************************)
\* the arrays hold floats: lines 451-454 are done
BurstsConverted == bpc \in {"loop", "raised"} \/ bursts_result.status = "Dataset"

RealValues(row) == {row[k][1] : k \in {j \in 1..Len(row) : row[j] # NaN}}
HasMissing(row) == \E k \in 1..Len(row) : row[k] = NaN

\* 0-based indices of the lines where at least one of the two rows is real
ValidLines(i) ==
    {k - 1 : k \in {j \in 1..lines_per_burst :
                       \/ burst_firstValidSample[i][j] # NaN
                       \/ burst_lastValidSample[i][j] # NaN}}

\* burst i (1-based) mixes missing and real indices
MixedBurst(i) ==
    /\ RealValues(burst_firstValidSample[i]) # {}
    /\ RealValues(burst_lastValidSample[i]) # {}
    /\ HasMissing(burst_firstValidSample[i]) \/ HasMissing(burst_lastValidSample[i])

\* the bounding box of the valid subset of burst i (1-based)
ExactBounds(i) ==
    <<(i - 1) * lines_per_burst + SetMin(ValidLines(i)),
      SetMin(RealValues(burst_firstValidSample[i])),
      (i - 1) * lines_per_burst + SetMax(ValidLines(i)),
      SetMax(RealValues(burst_lastValidSample[i]))>>

\* C11: for every burst whose firstValidSample / lastValidSample rows mix
\* missing and real indices, valid_location is exactly
\* (burst_index * lines_per_burst + least valid line, least real
\* firstValidSample, burst_index * lines_per_burst + greatest valid line,
\* greatest real lastValidSample), also when a selected line has only one of
\* the two arrays present.
C11_ValidLocationIsExactBounds ==
    BurstsConverted =>
        \A i \in 1..Len(valid_locations) :
            MixedBurst(i) => valid_locations[i] = ExactBounds(i)

\* burst i (1-based) has lines, and none of them has a valid sample
AllMissingBurst(i) ==
    /\ lines_per_burst >= 1
    /\ \A k \in 1..lines_per_burst :
          /\ burst_firstValidSample[i][k] = NaN
          /\ burst_lastValidSample[i][k] = NaN

BurstsEnded == bpc \in {"returned", "raised"}

\* C16: when the firstValidSample and lastValidSample rows of some burst are
\* entirely missing the call fails; it never returns a burst table, and
\* returns None only for a product whose bursts have no line.
C16_AllMissingBurstFails ==
    /\ bursts_result.status = "None" => lines_per_burst = 0
    /\ bursts_result.status = "Dataset" =>
          \A i \in 1..Len(burst_firstValidSample) : ~AllMissingBurst(i)
    /\ (/\ BurstsEnded
        /\ BurstsConverted
        /\ \E i \in 1..Len(burst_firstValidSample) : AllMissingBurst(i))
          => bursts_result.status = "ValueError"

\* the second burst is entirely missing, after a first one that is not: the
\* call has failed
C16_Witness ==
    /\ bpc = "raised"
    /\ ibur = 1
    /\ Len(valid_locations) = 1
    /\ AllMissingBurst(2)
    /\ bursts_result.status = "ValueError"

(***************************************************************************)
(* Claims about azimuth_fmrate (SpecFmrate).                               *)
(***************************************************************************)
\* C12: in the table azimuth_fmrate returns, when the combined polynomial
\* field is empty and legacy fields are not, the coefficients of every row
\* are [c0, c1, c1] of that row; when the combined field is not empty, its
\* rows are the coefficients, unchanged, whatever the legacy fields hold.
C12_LegacyIsC0C1C1ElseCombined ==
    fmrate_result.status = "DataFrame" =>
        /\ (/\ fmrate_azimuthFmRatePolynomial = <<>>
            /\ fmrate_c0 # <<>> \/ fmrate_c1 # <<>> \/ fmrate_c2 # <<>>)
              => /\ Len(fmrate_result.polynomial) = Len(fmrate_c0)
                 /\ Len(fmrate_result.polynomial) = Len(fmrate_c1)
                 /\ \A k \in 1..Len(fmrate_result.polynomial) :
                       fmrate_result.polynomial[k] =
                           <<fmrate_c0[k], fmrate_c1[k], fmrate_c1[k]>>
        /\ fmrate_azimuthFmRatePolynomial # <<>>
              => fmrate_result.polynomial = fmrate_azimuthFmRatePolynomial

\* a table made from legacy fields whose c2 differs from c1
C12_Witness ==
    /\ fmrate_result.status = "DataFrame"
    /\ fmrate_azimuthFmRatePolynomial = <<>>
    /\ Len(fmrate_c0) = MaxFmRate
    /\ Len(fmrate_c2) = MaxFmRate
    /\ fmrate_c2[1] # fmrate_c1[1]
    /\ fmrate_result.polynomial[1] = <<fmrate_c0[1], fmrate_c1[1], fmrate_c1[1]>>

(***************************************************************************)
(* Claims about geolocation_grid (SpecGeo).                                *)
(***************************************************************************)
RECURSIVE Ravel(_)
\* the rows of a 2D array one after the other: row-major flattening
Ravel(rows) == IF rows = <<>> THEN <<>> ELSE Head(rows) \o Ravel(Tail(rows))

\* C13: when len(values) = len(atrack) * len(xtrack), geolocation_grid
\* returns a grid of len(atrack) rows and len(xtrack) columns on these
\* coordinates, whose cell [i][j] is values[i * len(xtrack) + j], and whose
\* row-major flattening is values.
C13_RowMajorGrid ==
    (gpc # "start" /\ Len(geo_values) = Len(geo_atrack) * Len(geo_xtrack)) =>
        /\ geo_result.status = "DataArray"
        /\ geo_result.atrack = geo_atrack
        /\ geo_result.xtrack = geo_xtrack
        /\ Len(geo_result.data) = Len(geo_atrack)
        /\ \A i \in 1..Len(geo_atrack) :
              /\ Len(geo_result.data[i]) = Len(geo_xtrack)
              /\ \A j \in 1..Len(geo_xtrack) :
                    geo_result.data[i][j] = geo_values[(i - 1) * Len(geo_xtrack) + j]
        /\ Ravel(geo_result.data) = geo_values

\* a grid of two rows and two columns whose transpose is another grid
C13_Witness ==
    /\ geo_result.status = "DataArray"
    /\ Len(geo_atrack) = 2
    /\ Len(geo_xtrack) = 2
    /\ geo_values[2] # geo_values[3]

(***************************************************************************)
(* Claims about or_ipf28 (SpecIpf).                                        *)
(***************************************************************************)
\* the path names noiseRange or noiseAzimuth
NamesSplitNoise(p) ==
    \E k \in 1..(Len(p) - 1) : p[k] = "noise" /\ p[k + 1] \in {"Range", "Azimuth"}

IsSplitWord(w) == w \in {"Range", "Azimuth"}
\* the path with every noiseRange / noiseAzimuth written noise
WrittenNoise(p) == SelectSeq(p, LAMBDA w : ~IsSplitWord(w))

\* C14: for a path p naming noiseRange or noiseAzimuth, or_ipf28(p) is
\* 'p | p28', p28 being p with every noiseRange / noiseAzimuth written
\* noise; a path naming neither is returned unchanged; and when a file of
\* the old schema holds under p28 the texts a file of the new schema holds
\* under p, the query returns these texts, the same list, on both files.
C14_UnionMatchesBothSchemas ==
    /\ xpc # "start" =>
          xpath_mapping = IF NamesSplitNoise(xpath)
                          THEN xpath \o <<" | ">> \o WrittenNoise(xpath)
                          ELSE xpath
    /\ (/\ xpc = "queried"
        /\ NamesSplitNoise(xpath)
        /\ Texts(doc28, {WrittenNoise(xpath)}) = Texts(doc29, {xpath}))
          => /\ matched29 = Texts(doc29, {xpath})
             /\ matched28 = matched29

\* the noise LUT path, which names noiseRange three times, has returned the
\* same text on a file of each schema, each file holding another element too
C14_Witness ==
    /\ xpc = "queried"
    /\ xpath = RangeLut
    /\ Len(doc29) = 2
    /\ Len(doc28) = 2
    /\ matched29 = <<"2">>
    /\ matched28 = <<"2">>

(***************************************************************************)
(* Claims about ordered_category (SpecCat).                                *)
(***************************************************************************)
RECURSIVE FirstSeen(_)
\* the distinct values of x in the order of their first occurrence
FirstSeen(x) ==
    IF x = <<>> THEN <<>>
    ELSE LET rest == FirstSeen(SubSeq(x, 1, Len(x) - 1))
             last == x[Len(x)]
         IN  IF last \in SetOf(rest) THEN rest ELSE Append(rest, last)

\* C15: for every list of strings, also one in which a value occurs more
\* than once, ordered_category returns a categorical whose categories are
\* the distinct values in first-seen order and whose elements are the input
\* values in input order.
C15_FirstSeenCategories ==
    cpc # "start" =>
        /\ cat_result.status = "Categorical"
        /\ cat_result.categories = FirstSeen(cat_x)
        /\ Len(cat_result.codes) = Len(cat_x)
        /\ \A k \in 1..Len(cat_x) :
              cat_result.categories[cat_result.codes[k]] = cat_x[k]

(***************************************************************************)
(* Claims about compounds_vars (SpecCompound).                             *)
(***************************************************************************)
IsIdentifier(l) == l # "." /\ l # " "

\* the name is written 'scope.field' or 'scope.subscope.field'
IsDottedName(name) ==
    /\ Len(name) \in {3, 5}
    /\ \A k \in 1..Len(name) :
          IF k % 2 = 1 THEN IsIdentifier(name[k]) ELSE name[k] = "."

\* the keys of a name written 'scope.field' or 'scope.subscope.field'
DottedKeys(name) == [k \in 1..((Len(name) + 1) \div 2) |-> name[2 * k - 1]]

C18_StrictlyIncreasingNumbers ==
    upc = "returned" =>
        /\ SetOf(uniq_result) = SetOf(uniq_x)
        /\ \A k \in 1..(Len(uniq_result) - 1) :
              IntOf(uniq_result[k]) < IntOf(uniq_result[k + 1])

====
